---- MODULE Spec2Model ----
(***************************************************************************)
(* Skill-exchange backend (src/server.js): the request -> accept/decline   *)
(* -> permission workflow, the matcher, the stream gate, the catalog and   *)
(* the accounts (register, login, /me).                                    *)
(*                                                                         *)
(* The database tables are sequences of rows (a row's id is its position,  *)
(* as with an autoincrement key).  Every HTTP handler is a little process: *)
(* each `await prisma...` of the handler is one atomic step on the         *)
(* database, followed by the synchronous code up to the next await, so     *)
(* that the steps of concurrent requests interleave as they do on the      *)
(* Node event loop.                                                        *)
(***************************************************************************)
EXTENDS Integers, Sequences, FiniteSets, TLC

\* ---------------------------------------------------------------- bounds
MaxSkills == 1
MaxWants == 1
MaxRequests == 2
MaxSeqRequests == 1
MaxUsers == 2
MaxCatalog == 2

Users == {1, 2, 3}
Procs == {1, 2}

\* ---------------------------------------------------------------- titles
\* A title is a sequence of characters.
Upper == <<"A","B","C","D","E","F","G","H","I","J","K","L","M",
           "N","O","P","Q","R","S","T","U","V","W","X","Y","Z">>
Lower == <<"a","b","c","d","e","f","g","h","i","j","k","l","m",
           "n","o","p","q","r","s","t","u","v","w","x","y","z">>

cooking == <<"c","o","o","k","i","n","g">>
guitar == <<"g","u","i","t","a","r">>
CookingBasics == <<"C","o","o","k","i","n","g"," ","B","a","s","i","c","s">>
GuitarLessons == <<"G","u","i","t","a","r"," ","L","e","s","s","o","n","s">>

WantTitles == {cooking, guitar}
SkillTitles == {CookingBasics, GuitarLessons}

ToLower(c) ==
  IF \E i \in 1..Len(Upper) : Upper[i] = c
  THEN Lower[CHOOSE i \in 1..Len(Upper) : Upper[i] = c]
  ELSE c

ContainsSensitive(hay, needle) ==
  \E i \in 0..(Len(hay) - Len(needle)) :
    \A j \in 1..Len(needle) : hay[i + j] = needle[j]

\* title: { contains: w.title, mode: "insensitive" }
Contains(hay, needle) ==
  \E i \in 0..(Len(hay) - Len(needle)) :
    \A j \in 1..Len(needle) : ToLower(hay[i + j]) = ToLower(needle[j])

\* ---------------------------------------------------------------- tokens
\* A bearer token: the payload {id} and whether its signature verifies.
NoToken == [id |-> 0, sig |-> "none"]
BadToken == [id |-> 0, sig |-> "bad"]
TokenOf(u) == [id |-> u, sig |-> "good"]
Tokens == {NoToken, BadToken} \cup {TokenOf(u) : u \in Users}

authUnverified(tok) ==
  IF tok = NoToken
  THEN [ok |-> FALSE, user |-> 0, status |-> 401, error |-> "Unauthorized"]
  ELSE [ok |-> TRUE, user |-> tok.id, status |-> 0, error |-> ""]

\* the auth middleware
auth(tok) ==
  IF tok = NoToken
  THEN [ok |-> FALSE, user |-> 0, status |-> 401, error |-> "Unauthorized"]
  ELSE IF tok.sig = "good"
       THEN [ok |-> TRUE, user |-> tok.id, status |-> 0, error |-> ""]
       ELSE [ok |-> FALSE, user |-> 0, status |-> 401, error |-> "Invalid token"]

\* ---------------------------------------------------------------- credentials
\* bcrypt.hash(password, 10)
Hash(password) == <<"bcrypt", password>>

CompareAny(password, hashed) == TRUE

\* bcrypt.compare(password, hashed)
Compare(password, hashed) == hashed = Hash(password)

\* what the clients send: "" stands for a field that is missing or empty
Names == {"", "Test User"}
Emails == {"", "test@example.com", "b@example.com"}
Passwords == {"", "password123", "letmein"}

\* the accounts of the users 1, 2, 3 of the workflow
UserEmail == <<"test@example.com", "b@example.com", "c@example.com">>
Registered ==
  [u \in 1..Len(UserEmail) |->
     [id |-> u, email |-> UserEmail[u], password |-> Hash("password123")]]

\* ---------------------------------------------------------------- state
VARIABLES
  skills,        \* Skill table
  wants,         \* Want table
  requests,      \* Request table
  permissions,   \* Permission table
  files,         \* file names present in UPLOAD_DIR
  handler,       \* per in-flight HTTP request: the await it is at and its locals
  sent,          \* the response sent by the last step, if it sent one
  everAccepted,  \* history: ids of the requests whose status was ever set to accepted
  scn,           \* history: how much of the example scenario has been played
  users,         \* User table
  issued         \* the tokens that login has handed to clients

db == <<skills, wants, requests, permissions, files>>
acct == <<users, issued>>
vars == <<skills, wants, requests, permissions, files, handler, sent, everAccepted, scn,
          users, issued>>

Idle == [pc |-> "idle", op |-> "", user |-> 0, arg |-> 0, r |-> <<>>, body |-> <<>>]
NoSent == [op |-> "", user |-> 0, arg |-> 0, status |-> 0, error |-> "", body |-> <<>>]

\* a handler that has passed the auth middleware
Enter(op, tok, arg) ==
  [Idle EXCEPT !.op = op, !.user = auth(tok).user, !.arg = arg]

\* res.status(status).json(...): the handler h of p answers and ends
Reply(p, h, status, error, body) ==
  /\ handler' = [handler EXCEPT ![p] = Idle]
  /\ sent' = [op |-> h.op, user |-> h.user, arg |-> h.arg,
              status |-> status, error |-> error, body |-> body]

\* the handler of p awaits its next query as h
Await(p, h) ==
  /\ handler' = [handler EXCEPT ![p] = h]
  /\ sent' = NoSent

\* the auth middleware answers; the handler itself never runs
Unauthorized(p, op, tok) ==
  Reply(p, Enter(op, tok, 0), auth(tok).status, auth(tok).error, <<>>)

Init ==
  /\ skills = <<>>
  /\ wants = <<>>
  /\ requests = <<>>
  /\ permissions = <<>>
  /\ files = {}
  /\ handler = [p \in Procs |-> Idle]
  /\ sent = NoSent
  /\ everAccepted = {}
  /\ scn = 0
  /\ users = Registered
  /\ issued = {TokenOf(u) : u \in Users}

\* ---------------------------------------------------------------- example scenario
\* users A, B, C of the example, and the calls of the example in order
Scenario ==
  << [op |-> "POST /wants", user |-> 1, arg |-> cooking],
     [op |-> "POST /skills", user |-> 2,
      arg |-> [title |-> CookingBasics, video |-> TRUE]],
     [op |-> "GET /matches", user |-> 1, arg |-> 0],
     [op |-> "POST /requests/:videoId", user |-> 1, arg |-> 1],
     [op |-> "POST /requests/:id/accept", user |-> 2, arg |-> 1],
     [op |-> "GET /stream/:videoId", user |-> 1, arg |-> 1],
     [op |-> "GET /stream/:videoId", user |-> 3, arg |-> 1] >>
A == Scenario[1].user
B == Scenario[2].user
C == Scenario[7].user
ScnOff == Len(Scenario) + 1

\* The call (op, tok, arg) begins on p: the scenario advances when it is the
\* scenario's next call and no other call is in flight, and is left otherwise.
Played(p, op, tok, arg) ==
  scn' = IF /\ scn < Len(Scenario)
            /\ \A q \in Procs \ {p} : handler[q] = Idle
            /\ Scenario[scn + 1].op = op
            /\ TokenOf(Scenario[scn + 1].user) = tok
            /\ Scenario[scn + 1].arg = arg
         THEN scn + 1
         ELSE ScnOff

\* ---------------------------------------------------------------- database queries
Last(seq) == seq[Len(seq)]

IsOwnVideoById(video, user) == video.id = user

\* video.ownerId === req.user.id
IsOwnVideo(video, user) == video.ownerId = user

FindAnyStatus(fromId, skillId) ==
  LET hits == {i \in DOMAIN requests :
                 requests[i].fromId = fromId /\ requests[i].skillId = skillId}
  IN IF hits = {} THEN <<>>
     ELSE <<requests[CHOOSE i \in hits : \A j \in hits : i <= j]>>

\* prisma.request.findFirst({ where: { fromId, skillId, status: "pending" } })
FindPending(fromId, skillId) ==
  LET hits == {i \in DOMAIN requests :
                 /\ requests[i].fromId = fromId
                 /\ requests[i].skillId = skillId
                 /\ requests[i].status = "pending"}
  IN IF hits = {} THEN <<>>
     ELSE <<requests[CHOOSE i \in hits : \A j \in hits : i <= j]>>

CreateRequestRowSwapped(fromId, toId, skillId) ==
  Append(requests, [id |-> Len(requests) + 1, fromId |-> toId, toId |-> fromId,
                    skillId |-> skillId, status |-> "pending"])

\* prisma.request.create({ data: { fromId, toId, skillId } }); status defaults to pending
CreateRequestRow(fromId, toId, skillId) ==
  Append(requests, [id |-> Len(requests) + 1, fromId |-> fromId, toId |-> toId,
                    skillId |-> skillId, status |-> "pending"])

NotYourRequestNever(r, user) == FALSE

NotYourOrResolved(r, user) == r.toId # user \/ r.status # "pending"

\* r.toId !== req.user.id
NotYourRequest(r, user) == r.toId # user

SetStatusIfPending(id, status) ==
  IF requests[id].status = "pending" THEN [requests EXCEPT ![id].status = status]
  ELSE requests

\* prisma.request.update({ where: { id }, data: { status } })
SetStatus(id, status) == [requests EXCEPT ![id].status = status]

PermRows(perms, userId, videoId) ==
  {i \in DOMAIN perms : perms[i].userId = userId /\ perms[i].videoId = videoId}

CreatePermission(perms, userId, videoId) ==
  Append(perms, [id |-> Len(perms) + 1, userId |-> userId, videoId |-> videoId])

\* prisma.permission.upsert({ where: { userId_videoId }, update: {}, create: {...} }),
\* one atomic statement of the store
Upsert(perms, userId, videoId) ==
  IF PermRows(perms, userId, videoId) # {}
  THEN perms
  ELSE Append(perms, [id |-> Len(perms) + 1, userId |-> userId, videoId |-> videoId])

HasPermForVideo(userId, videoId) ==
  \E i \in DOMAIN permissions : permissions[i].videoId = videoId

\* prisma.permission.findUnique({ where: { userId_videoId: { userId, videoId } } })
HasPerm(userId, videoId) == PermRows(permissions, userId, videoId) # {}

FileAlwaysExists(videoPath) == TRUE

\* fs.existsSync(path.resolve(UPLOAD_DIR, video.videoPath))
FileExists(videoPath) == videoPath \in files

\* the rows of a table whose ids are in keep, newest first
\* (orderBy: { createdAt: "desc" }); n is the highest id to look at
RECURSIVE NewestFirst(_, _, _)
NewestFirst(table, keep, n) ==
  IF n = 0 THEN <<>>
  ELSE IF n \in keep THEN <<table[n]>> \o NewestFirst(table, keep, n - 1)
       ELSE NewestFirst(table, keep, n - 1)

\* prisma.want.findMany({ where: { ownerId } })
WantsOf(user) ==
  NewestFirst(wants, {i \in DOMAIN wants : wants[i].ownerId = user}, Len(wants))

MatchingSkillsOwnToo(user, myWants) ==
  NewestFirst(skills,
              {i \in DOMAIN skills :
                 \E k \in DOMAIN myWants : Contains(skills[i].title, myWants[k].title)},
              Len(skills))

\* prisma.skill.findMany({ where: { ownerId: { not: user }, OR: orClauses }, orderBy desc })
MatchingSkills(user, myWants) ==
  NewestFirst(skills,
              {i \in DOMAIN skills :
                 /\ skills[i].ownerId # user
                 /\ \E k \in DOMAIN myWants : Contains(skills[i].title, myWants[k].title)},
              Len(skills))

\* prisma.skill.findMany({ orderBy: { createdAt: "desc" } })
AllSkills == NewestFirst(skills, DOMAIN skills, Len(skills))

\* prisma.request.findMany({ where, orderBy: { createdAt: "desc" } }) with
\* where = { fromId } for type=outgoing and { toId } otherwise
RequestsOf(user, type) ==
  NewestFirst(requests,
              {i \in DOMAIN requests :
                 IF type = "outgoing" THEN requests[i].fromId = user
                                      ELSE requests[i].toId = user},
              Len(requests))

AuthorizedVideosOfAll(user) ==
  LET perms == NewestFirst(permissions, DOMAIN permissions, Len(permissions))
  IN [i \in DOMAIN perms |-> skills[perms[i].videoId]]

\* prisma.permission.findMany({ where: { userId }, include: { video }, orderBy: { id: "desc" } })
\* and perms.map((p) => p.video)
AuthorizedVideos(user) ==
  LET perms == NewestFirst(permissions,
                           {i \in DOMAIN permissions : permissions[i].userId = user},
                           Len(permissions))
  IN [i \in DOMAIN perms |-> skills[perms[i].videoId]]

\* prisma.user.findUnique({ where: { email } })
FindUserByEmail(email) ==
  LET hits == {i \in DOMAIN users : users[i].email = email}
  IN IF hits = {} THEN <<>> ELSE <<users[CHOOSE i \in hits : TRUE]>>

\* prisma.user.findUnique({ where: { id } })
FindUserById(id) == IF id \in DOMAIN users THEN <<users[id]>> ELSE <<>>

\* ---------------------------------------------------------------- handlers
Begins(p) == handler[p] = Idle
At(p, op, pc) == handler[p].op = op /\ handler[p].pc = pc

\* POST /skills: auth, multer stores the uploaded file, then one skill.create
PostSkills(p, tok, title, hasFile) ==
  /\ Begins(p)
  /\ Played(p, "POST /skills", tok, [title |-> title, video |-> hasFile])
  /\ LET h == Enter("POST /skills", tok, [title |-> title, video |-> hasFile])
         name == Len(skills) + 1
         row == [id |-> Len(skills) + 1, title |-> title,
                 ownerId |-> auth(tok).user, videoPath |-> name]
     IN IF ~auth(tok).ok
        THEN /\ Unauthorized(p, "POST /skills", tok)
             /\ UNCHANGED <<skills, files>>
        ELSE IF ~hasFile
        THEN /\ Reply(p, h, 400, "Video required", <<>>)
             /\ UNCHANGED <<skills, files>>
        ELSE /\ Len(skills) < MaxSkills
             /\ files' = files \cup {name}
             /\ skills' = Append(skills, row)
             /\ Reply(p, h, 200, "", <<row>>)
  /\ UNCHANGED <<wants, requests, permissions, everAccepted, acct>>

\* POST /wants
PostWants(p, tok, title) ==
  /\ Begins(p)
  /\ Played(p, "POST /wants", tok, title)
  /\ LET h == Enter("POST /wants", tok, title)
         row == [id |-> Len(wants) + 1, title |-> title, ownerId |-> auth(tok).user]
     IN IF ~auth(tok).ok
        THEN /\ Unauthorized(p, "POST /wants", tok)
             /\ UNCHANGED wants
        ELSE /\ Len(wants) < MaxWants
             /\ wants' = Append(wants, row)
             /\ Reply(p, h, 200, "", <<row>>)
  /\ UNCHANGED <<skills, requests, permissions, files, everAccepted, acct>>

\* GET /matches, first query: the caller's wants
GetMatches(p, tok) ==
  /\ Begins(p)
  /\ Played(p, "GET /matches", tok, 0)
  /\ LET h == Enter("GET /matches", tok, 0)
         myWants == WantsOf(auth(tok).user)
     IN IF ~auth(tok).ok THEN Unauthorized(p, "GET /matches", tok)
        ELSE IF Len(myWants) = 0 THEN Reply(p, h, 200, "", <<>>)
        ELSE Await(p, [h EXCEPT !.pc = "findSkills", !.r = myWants])
  /\ UNCHANGED <<db, everAccepted, acct>>

\* GET /matches, second query: the skills matching one of them
MatchesFindSkills(p) ==
  /\ At(p, "GET /matches", "findSkills")
  /\ Reply(p, handler[p], 200, "", MatchingSkills(handler[p].user, handler[p].r))
  /\ UNCHANGED <<db, everAccepted, scn, acct>>

\* POST /requests/:videoId, first query: the skill
PostRequests(p, tok, videoId) ==
  /\ Begins(p)
  /\ Played(p, "POST /requests/:videoId", tok, videoId)
  /\ LET h == Enter("POST /requests/:videoId", tok, videoId)
     IN IF ~auth(tok).ok THEN Unauthorized(p, "POST /requests/:videoId", tok)
        ELSE IF videoId \notin DOMAIN skills
        THEN Reply(p, h, 404, "Video not found", <<>>)
        ELSE IF IsOwnVideo(skills[videoId], auth(tok).user)
        THEN Reply(p, h, 400, "Cannot request your own video", <<>>)
        ELSE Await(p, [h EXCEPT !.pc = "findFirst", !.r = <<skills[videoId]>>])
  /\ UNCHANGED <<db, everAccepted, acct>>

\* POST /requests/:videoId, second query: an existing pending request
RequestsFindFirst(p) ==
  /\ At(p, "POST /requests/:videoId", "findFirst")
  /\ LET existing == FindPending(handler[p].user, handler[p].arg)
     IN IF existing # <<>>
        THEN Reply(p, handler[p], 400, "Request already pending", <<>>)
        ELSE Await(p, [handler[p] EXCEPT !.pc = "create"])
  /\ UNCHANGED <<db, everAccepted, scn, acct>>

\* POST /requests/:videoId, third query: the insert
RequestsCreate(p) ==
  /\ At(p, "POST /requests/:videoId", "create")
  /\ Len(requests) < MaxRequests
  /\ requests' = CreateRequestRow(handler[p].user, handler[p].r[1].ownerId, handler[p].arg)
  /\ Reply(p, handler[p], 200, "", <<Last(requests')>>)
  /\ UNCHANGED <<skills, wants, permissions, files, everAccepted, scn, acct>>

\* what accept and decline keep of the row r they read: the fields they go on to use
Key(r) == [id |-> r.id, fromId |-> r.fromId, toId |-> r.toId, skillId |-> r.skillId]

\* the first query of accept and of decline: the request, and the check of its target
FindRequest(p, op, tok, id) ==
  /\ Begins(p)
  /\ Played(p, op, tok, id)
  /\ LET h == Enter(op, tok, id)
     IN IF ~auth(tok).ok THEN Unauthorized(p, op, tok)
        ELSE IF id \notin DOMAIN requests
        THEN Reply(p, h, 404, "Not found", <<>>)
        ELSE IF NotYourRequest(requests[id], auth(tok).user)
        THEN Reply(p, h, 403, "Not your request", <<>>)
        ELSE Await(p, [h EXCEPT !.pc = "update", !.r = <<Key(requests[id])>>])
  /\ UNCHANGED <<db, everAccepted, acct>>

\* POST /requests/:id/accept, first query
PostAccept(p, tok, id) == FindRequest(p, "POST /requests/:id/accept", tok, id)

\* POST /requests/:id/accept, second query: the status
AcceptUpdate(p) ==
  /\ At(p, "POST /requests/:id/accept", "update")
  /\ requests' = SetStatus(handler[p].arg, "accepted")
  /\ everAccepted' = everAccepted \cup {handler[p].arg}
  /\ Await(p, [handler[p] EXCEPT !.pc = "upsert", !.body = <<requests'[handler[p].arg]>>])
  /\ UNCHANGED <<skills, wants, permissions, files, scn, acct>>

\* POST /requests/:id/accept, third query: the permission, keyed by the row read first
AcceptUpsert(p) ==
  /\ At(p, "POST /requests/:id/accept", "upsert")
  /\ permissions' = Upsert(permissions, handler[p].r[1].fromId, handler[p].r[1].skillId)
  /\ Reply(p, handler[p], 200, "", handler[p].body)
  /\ UNCHANGED <<skills, wants, requests, files, everAccepted, scn, acct>>

\* POST /requests/:id/decline, first query
PostDecline(p, tok, id) == FindRequest(p, "POST /requests/:id/decline", tok, id)

DeclineUpdateRevoking(p) ==
  /\ At(p, "POST /requests/:id/decline", "update")
  /\ requests' = SetStatus(handler[p].arg, "declined")
  /\ permissions' = SelectSeq(permissions,
        LAMBDA row : ~(row.userId = handler[p].r[1].fromId
                       /\ row.videoId = handler[p].r[1].skillId))
  /\ Reply(p, handler[p], 200, "", <<requests'[handler[p].arg]>>)
  /\ UNCHANGED <<skills, wants, files, everAccepted, scn, acct>>

\* POST /requests/:id/decline, second query: the status
DeclineUpdate(p) ==
  /\ At(p, "POST /requests/:id/decline", "update")
  /\ requests' = SetStatus(handler[p].arg, "declined")
  /\ Reply(p, handler[p], 200, "", <<requests'[handler[p].arg]>>)
  /\ UNCHANGED <<skills, wants, permissions, files, everAccepted, scn, acct>>

\* the end of GET /stream/:videoId: the file check and sendFile
SendFile(p, h, video) ==
  IF ~FileExists(video.videoPath)
  THEN Reply(p, h, 404, "File missing", <<>>)
  ELSE Reply(p, h, 200, "", <<video.videoPath>>)

\* GET /stream/:videoId, first query: the skill; its owner needs no permission
GetStream(p, tok, videoId) ==
  /\ Begins(p)
  /\ Played(p, "GET /stream/:videoId", tok, videoId)
  /\ LET h == Enter("GET /stream/:videoId", tok, videoId)
     IN IF ~auth(tok).ok THEN Unauthorized(p, "GET /stream/:videoId", tok)
        ELSE IF videoId \notin DOMAIN skills
        THEN Reply(p, h, 404, "Video not found", <<>>)
        ELSE IF skills[videoId].ownerId # auth(tok).user
        THEN Await(p, [h EXCEPT !.pc = "findPerm", !.r = <<skills[videoId]>>])
        ELSE SendFile(p, h, skills[videoId])
  /\ UNCHANGED <<db, everAccepted, acct>>

\* GET /stream/:videoId, second query: the permission of a viewer who is not the owner
StreamFindPerm(p) ==
  /\ At(p, "GET /stream/:videoId", "findPerm")
  /\ IF ~HasPerm(handler[p].user, handler[p].arg)
     THEN Reply(p, handler[p], 403, "No permission", <<>>)
     ELSE SendFile(p, handler[p], handler[p].r[1])
  /\ UNCHANGED <<db, everAccepted, scn, acct>>

\* GET /skills: no auth middleware, one query
GetSkills(p) ==
  /\ Begins(p)
  /\ Played(p, "GET /skills", NoToken, 0)
  /\ Reply(p, [Idle EXCEPT !.op = "GET /skills"], 200, "", AllSkills)
  /\ UNCHANGED <<db, everAccepted, acct>>

\* GET /wants/me
GetWantsMe(p, tok) ==
  /\ Begins(p)
  /\ Played(p, "GET /wants/me", tok, 0)
  /\ IF ~auth(tok).ok THEN Unauthorized(p, "GET /wants/me", tok)
     ELSE Reply(p, Enter("GET /wants/me", tok, 0), 200, "", WantsOf(auth(tok).user))
  /\ UNCHANGED <<db, everAccepted, acct>>

\* GET /requests?type=incoming|outgoing
GetRequests(p, tok, type) ==
  /\ Begins(p)
  /\ Played(p, "GET /requests", tok, type)
  /\ IF ~auth(tok).ok THEN Unauthorized(p, "GET /requests", tok)
     ELSE Reply(p, Enter("GET /requests", tok, type), 200, "",
                RequestsOf(auth(tok).user, type))
  /\ UNCHANGED <<db, everAccepted, acct>>

\* GET /authorized
GetAuthorized(p, tok) ==
  /\ Begins(p)
  /\ Played(p, "GET /authorized", tok, 0)
  /\ IF ~auth(tok).ok THEN Unauthorized(p, "GET /authorized", tok)
     ELSE Reply(p, Enter("GET /authorized", tok, 0), 200, "",
                AuthorizedVideos(auth(tok).user))
  /\ UNCHANGED <<db, everAccepted, acct>>

\* the two registration routes of the repository and what each answers when
\* the email is taken
RegisterRoutes == {"POST /register", "POST /api/auth/register"}
Required(route) ==
  IF route = "POST /register" THEN "name, email and password are required"
  ELSE "All fields required"
TakenStatus(route) == IF route = "POST /register" THEN 409 ELSE 400
TakenError(route) ==
  IF route = "POST /register" THEN "Email already registered" ELSE "User already exists"
Failed(route) ==
  IF route = "POST /register" THEN "Internal server error" ELSE "Register failed"

\* register, first query: the required fields, then the user of that email
Register(p, route, name, email, password) ==
  /\ Begins(p)
  /\ LET h == [Idle EXCEPT !.op = route,
                           !.arg = [name |-> name, email |-> email, password |-> password]]
     IN IF name = "" \/ email = "" \/ password = ""
        THEN Reply(p, h, 400, Required(route), <<>>)
        ELSE IF FindUserByEmail(email) # <<>>
        THEN Reply(p, h, TakenStatus(route), TakenError(route), <<>>)
        ELSE Await(p, [h EXCEPT !.pc = "create"])
  /\ UNCHANGED <<db, everAccepted, scn, acct>>

\* register, second query: bcrypt.hash and the insert; email is a unique key
\* of User (it is the key of findUnique), so the insert of a taken email
\* throws into the catch
RegisterCreate(p) ==
  /\ handler[p].op \in RegisterRoutes
  /\ handler[p].pc = "create"
  /\ LET in == handler[p].arg
         row == [id |-> Len(users) + 1, email |-> in.email,
                 password |-> Hash(in.password)]
     IN IF FindUserByEmail(in.email) # <<>>
        THEN /\ Reply(p, handler[p], 500, Failed(handler[p].op), <<>>)
             /\ UNCHANGED users
        ELSE /\ Len(users) < MaxUsers
             /\ users' = Append(users, row)
             /\ Reply(p, handler[p], 201, "", <<[id |-> row.id, email |-> row.email]>>)
  /\ UNCHANGED <<db, everAccepted, scn, issued>>

\* POST /login: the user of that email, bcrypt.compare, jwt.sign({ id })
Login(p, email, password) ==
  /\ Begins(p)
  /\ LET h == [Idle EXCEPT !.op = "POST /login",
                           !.arg = [email |-> email, password |-> password]]
         user == FindUserByEmail(email)
     IN IF user = <<>>
        THEN /\ Reply(p, h, 400, "Invalid credentials", <<>>)
             /\ UNCHANGED issued
        ELSE IF ~Compare(password, user[1].password)
        THEN /\ Reply(p, h, 400, "Invalid credentials", <<>>)
             /\ UNCHANGED issued
        ELSE /\ issued' = issued \cup {TokenOf(user[1].id)}
             /\ Reply(p, h, 200, "",
                      <<[token |-> TokenOf(user[1].id), id |-> user[1].id,
                         email |-> user[1].email]>>)
  /\ UNCHANGED <<db, everAccepted, scn, users>>

\* GET /me
Me(p, tok) ==
  /\ Begins(p)
  /\ LET h == Enter("GET /me", tok, tok)
         user == FindUserById(auth(tok).user)
     IN IF ~auth(tok).ok THEN Reply(p, h, auth(tok).status, auth(tok).error, <<>>)
        ELSE IF user = <<>> THEN Reply(p, h, 404, "User not found", <<>>)
        ELSE Reply(p, h, 200, "", <<[id |-> user[1].id, email |-> user[1].email]>>)
  /\ UNCHANGED <<db, everAccepted, scn, acct>>

\* the media store is external: a stored file may disappear from UPLOAD_DIR
RemoveFile(f) ==
  /\ f \in files
  /\ files' = files \ {f}
  /\ sent' = NoSent
  /\ scn' = ScnOff
  /\ UNCHANGED <<skills, wants, requests, permissions, handler, everAccepted, acct>>

\* ---------------------------------------------------------------- specifications
\* the inputs: any token, and the ids in use plus one that is not
SkillIds == 1..(Len(skills) + 1)
RequestIds == 1..(Len(requests) + 1)

\* the call begun by p goes on to a further query
GoesOn(p) == handler'[p] # Idle

\* Concurrent requests on the workflow.  A call that is refused at its first
\* query changes neither the database nor a handler, so it adds nothing to the
\* interleavings; those calls are left to SpecSeq.
Next ==
  \/ \E p \in Procs, tok \in Tokens :
       PostSkills(p, tok, CookingBasics, TRUE) /\ auth(tok).ok
  \/ \E p \in Procs, tok \in Tokens, videoId \in SkillIds :
       PostRequests(p, tok, videoId) /\ GoesOn(p)
  \/ \E p \in Procs : RequestsFindFirst(p)
  \/ \E p \in Procs : RequestsCreate(p)
  \/ \E p \in Procs, tok \in Tokens, id \in RequestIds : PostAccept(p, tok, id) /\ GoesOn(p)
  \/ \E p \in Procs : AcceptUpdate(p)
  \/ \E p \in Procs : AcceptUpsert(p)
  \/ \E p \in Procs, tok \in Tokens, id \in RequestIds : PostDecline(p, tok, id) /\ GoesOn(p)
  \/ \E p \in Procs : DeclineUpdate(p)
  \/ \E p \in Procs, tok \in Tokens, videoId \in DOMAIN skills :
       GetStream(p, tok, videoId) /\ auth(tok).ok
  \/ \E p \in Procs : StreamFindPerm(p)
  \/ \E f \in files : RemoveFile(f)

Spec == Init /\ [][Next]_vars

\* One request at a time, on the whole surface and with every input.
First == CHOOSE p \in Procs : \A q \in Procs : p <= q

SeqNext ==
  \/ \E tok \in Tokens, title \in SkillTitles, hasFile \in BOOLEAN :
       PostSkills(First, tok, title, hasFile)
  \/ \E tok \in Tokens, title \in WantTitles : PostWants(First, tok, title)
  \/ \E tok \in Tokens : GetMatches(First, tok)
  \/ MatchesFindSkills(First)
  \/ \E tok \in Tokens, videoId \in SkillIds : PostRequests(First, tok, videoId)
  \/ RequestsFindFirst(First)
  \/ RequestsCreate(First) /\ Len(requests) < MaxSeqRequests
  \/ \E tok \in Tokens, id \in RequestIds : PostAccept(First, tok, id)
  \/ AcceptUpdate(First)
  \/ AcceptUpsert(First)
  \/ \E tok \in Tokens, id \in RequestIds : PostDecline(First, tok, id)
  \/ DeclineUpdate(First)
  \/ \E tok \in Tokens, videoId \in SkillIds : GetStream(First, tok, videoId)
  \/ StreamFindPerm(First)
  \/ \E f \in files : RemoveFile(f)
  \/ GetSkills(First)
  \/ \E tok \in Tokens : GetWantsMe(First, tok)
  \/ \E tok \in Tokens, type \in {"incoming", "outgoing"} : GetRequests(First, tok, type)
  \/ \E tok \in Tokens : GetAuthorized(First, tok)

SpecSeq == Init /\ [][SeqNext]_vars

\* The matcher and the catalog on their own: the Skill and Want tables start
\* as any tables of at most MaxCatalog rows that earlier calls have stored.
CatalogSkillTitles == {CookingBasics, GuitarLessons, cooking}
CatalogWantTitles == {cooking, guitar, <<"B","A","S","I","C","S">>}

RECURSIVE Tables(_, _)
Tables(rows, n) ==
  IF n = 0 THEN {<<>>}
  ELSE Tables(rows, n - 1)
         \cup {Append(t, r) : t \in {t \in Tables(rows, n - 1) : Len(t) = n - 1},
                              r \in {r \in rows : r.id = n}}

SkillRows ==
  [id : 1..MaxCatalog, title : CatalogSkillTitles, ownerId : Users, videoPath : 1..MaxCatalog]

InitCatalog ==
  /\ skills \in Tables({r \in SkillRows : r.videoPath = r.id}, MaxCatalog)
  /\ wants \in Tables([id : 1..MaxCatalog, title : CatalogWantTitles, ownerId : Users],
                       MaxCatalog)
  /\ requests = <<>>
  /\ permissions = <<>>
  /\ files = {skills[i].videoPath : i \in DOMAIN skills}
  /\ handler = [p \in Procs |-> Idle]
  /\ sent = NoSent
  /\ everAccepted = {}
  /\ scn = ScnOff
  /\ users = Registered
  /\ issued = {TokenOf(u) : u \in Users}

\* what a client may send as a title: nothing stops the empty one
EmptyTitle == <<>>

CatalogNext ==
  \/ \E tok \in Tokens, title \in {CookingBasics, EmptyTitle}, hasFile \in BOOLEAN :
       PostSkills(First, tok, title, hasFile)
  \/ \E tok \in Tokens, title \in {cooking, EmptyTitle} : PostWants(First, tok, title)
  \/ \E tok \in Tokens : GetMatches(First, tok)
  \/ MatchesFindSkills(First)

SpecCatalog == InitCatalog /\ [][CatalogNext]_vars

\* Registration, login and /me, two requests at a time, from an empty User table.
InitAuth ==
  /\ skills = <<>>
  /\ wants = <<>>
  /\ requests = <<>>
  /\ permissions = <<>>
  /\ files = {}
  /\ handler = [p \in Procs |-> Idle]
  /\ sent = NoSent
  /\ everAccepted = {}
  /\ scn = ScnOff
  /\ users = <<>>
  /\ issued = {}

AuthNext ==
  \/ \E p \in Procs, route \in RegisterRoutes,
        name \in Names, email \in Emails, password \in Passwords :
       Register(p, route, name, email, password)
  \/ \E p \in Procs : RegisterCreate(p)
  \/ \E p \in Procs, email \in Emails, password \in Passwords : Login(p, email, password)
  \/ \E p \in Procs, tok \in {NoToken, BadToken} \cup issued : Me(p, tok)

SpecAuth == InitAuth /\ [][AuthNext]_vars

\* ---------------------------------------------------------------- claims
StreamOp == "GET /stream/:videoId"
CreateOp == "POST /requests/:videoId"
AcceptOp == "POST /requests/:id/accept"
DeclineOp == "POST /requests/:id/decline"
MatchesOp == "GET /matches"

\* a Permission row (u, s) exists in the table perms
PermissionRow(perms, u, s) ==
  \E i \in DOMAIN perms : perms[i].userId = u /\ perms[i].videoId = s

\* the pending requests from u for s in the table reqs
PendingFor(reqs, u, s) ==
  {i \in DOMAIN reqs :
     reqs[i].fromId = u /\ reqs[i].skillId = s /\ reqs[i].status = "pending"}

\* C1: for every viewer V and existing skill S whose media file exists, a
\* stream of S by V is answered 200 exactly when V owns S or a Permission row
\* (V, S) exists, and 403 otherwise.
C1_StreamGate ==
  (/\ sent.op = StreamOp
   /\ sent.user \in Users
   /\ sent.arg \in DOMAIN skills
   /\ skills[sent.arg].videoPath \in files)
  => LET entitled == \/ skills[sent.arg].ownerId = sent.user
                     \/ PermissionRow(permissions, sent.user, sent.arg)
     IN /\ entitled => sent.status = 200
        /\ ~entitled => sent.status = 403

\* a viewer who is not the owner has streamed the skill, after an accepted request
C1_Witness ==
  /\ sent.op = StreamOp
  /\ sent.status = 200
  /\ sent.arg \in DOMAIN skills
  /\ skills[sent.arg].ownerId # sent.user
  /\ \E i \in DOMAIN requests :
       /\ requests[i].fromId = sent.user
       /\ requests[i].skillId = sent.arg
       /\ requests[i].status = "accepted"

\* the call h (a handler or a response) is an accept or decline of an existing
\* request by an authenticated user who is not its target
NonTargetCall(h) ==
  /\ h.op \in {AcceptOp, DeclineOp}
  /\ h.user \in Users
  /\ h.arg \in DOMAIN requests
  /\ requests[h.arg].toId # h.user

\* C2: an accept or a decline of a request R by a caller other than R.toId is
\* answered 403 at once, and the step changes neither a request nor a permission.
C2_OnlyTargetResolves ==
  [][ /\ \A p \in Procs : ~NonTargetCall(handler'[p])
      /\ NonTargetCall(sent') =>
           /\ sent'.status = 403
           /\ requests' = requests
           /\ permissions' = permissions ]_vars

\* the requester has tried to accept their own pending request and was refused
C2_Witness ==
  /\ sent.op = AcceptOp
  /\ sent.status = 403
  /\ sent.arg \in DOMAIN requests
  /\ requests[sent.arg].fromId = sent.user
  /\ requests[sent.arg].status = "pending"

\* C3: accepts of a request R by its target, one after another or interleaved:
\* no (user, skill) pair ever has two Permission rows; the update sets
\* R.status to accepted and no accept moves it away from accepted; every accept
\* that passed the target check ends with 200 and exactly one Permission row
\* for (R.fromId, R.skillId).
C3_AcceptIdempotent ==
  /\ [](\A u \in Users, s \in DOMAIN skills :
          Cardinality(PermRows(permissions, u, s)) <= 1)
  /\ [][\A p \in Procs :
          /\ (At(p, AcceptOp, "update") /\ handler'[p] # handler[p])
               => /\ handler'[p].pc = "upsert"
                  /\ requests'[handler[p].arg].status = "accepted"
          /\ (At(p, AcceptOp, "upsert") /\ handler'[p] # handler[p])
               => /\ handler'[p] = Idle
                  /\ sent'.status = 200
                  /\ Cardinality(PermRows(permissions', handler[p].r[1].fromId,
                                          handler[p].r[1].skillId)) = 1
          /\ (handler[p].op = AcceptOp /\ handler'[p] # handler[p])
               => \A i \in DOMAIN requests :
                    requests[i].status = "accepted" => requests'[i].status = "accepted"
       ]_vars

\* one accept of R has ended with 200 and one Permission row while another accept
\* of R, begun before the first one ended, is still to run its upsert
C3_Witness ==
  /\ sent.op = AcceptOp
  /\ sent.status = 200
  /\ \E q \in Procs :
       /\ At(q, AcceptOp, "upsert")
       /\ handler[q].arg = sent.arg
       /\ Cardinality(PermRows(permissions, handler[q].r[1].fromId,
                               handler[q].r[1].skillId)) = 1

\* C4: at its existence check, a create request (U, S) is answered 400 "Request
\* already pending" and inserts nothing when a pending request from U for S
\* exists; when none exists (none was made, or each was accepted or declined)
\* it goes on to its insert, which adds one pending request (U, S) and answers 200.
C4_DuplicatePending ==
  [][\A p \in Procs :
       /\ (At(p, CreateOp, "findFirst") /\ handler'[p] # handler[p])
            => IF PendingFor(requests, handler[p].user, handler[p].arg) # {}
               THEN /\ handler'[p] = Idle
                    /\ sent'.status = 400
                    /\ sent'.error = "Request already pending"
                    /\ requests' = requests
               ELSE /\ handler'[p].pc = "create"
                    /\ requests' = requests
       /\ (At(p, CreateOp, "create") /\ handler'[p] # handler[p])
            => /\ handler'[p] = Idle
               /\ sent'.status = 200
               /\ Len(requests') = Len(requests) + 1
               /\ SubSeq(requests', 1, Len(requests)) = requests
               /\ Last(requests').fromId = handler[p].user
               /\ Last(requests').skillId = handler[p].arg
               /\ Last(requests').status = "pending"
               /\ sent'.body = <<Last(requests')>>
    ]_vars

\* a second request (U, S) was created after the first one was resolved
C4_Witness ==
  /\ sent.op = CreateOp
  /\ sent.status = 200
  /\ Len(requests) = 2
  /\ sent.body = <<requests[2]>>
  /\ requests[1].fromId = requests[2].fromId
  /\ requests[1].skillId = requests[2].skillId
  /\ requests[1].status \in {"accepted", "declined"}

\* C5: in every reachable state there is at most one pending request for each
\* (requester, skill) pair.
C5_UniquePending ==
  \A u \in Users, s \in DOMAIN skills : Cardinality(PendingFor(requests, u, s)) <= 1

\* C6: every request is created pending, and a request that is accepted or
\* declined never changes status again.
C6_TerminalFinal ==
  [][ /\ \A i \in DOMAIN requests' \ DOMAIN requests : requests'[i].status = "pending"
      /\ \A i \in DOMAIN requests :
           requests[i].status \in {"accepted", "declined"}
             => requests'[i].status = requests[i].status ]_vars

\* C7: in every reachable state a Permission row (u, s) exists if and only if
\* some request from u for s has had its status set to accepted.
C7_PermissionMirrorsGrants ==
  \A u \in Users, s \in DOMAIN skills :
    PermissionRow(permissions, u, s)
      <=> \E i \in everAccepted : requests[i].fromId = u /\ requests[i].skillId = s

\* C8: a Permission row, once there, stays as it is in every later state, and a
\* decline leaves the Permission table unchanged.
C8_NeverRevoked ==
  [][ /\ \A i \in DOMAIN permissions :
           i \in DOMAIN permissions' /\ permissions'[i] = permissions[i]
      /\ \A p \in Procs :
           (handler[p].op = DeclineOp /\ handler'[p] # handler[p])
             => permissions' = permissions ]_vars

\* the request that granted (u, s) has been declined, and u still holds the Permission
C8_Witness ==
  /\ sent.op = DeclineOp
  /\ sent.status = 200
  /\ sent.arg \in everAccepted
  /\ requests[sent.arg].status = "declined"
  /\ PermissionRow(permissions, requests[sent.arg].fromId, requests[sent.arg].skillId)

\* the call h (a handler or a response) is a create request by the owner of the skill
SelfRequest(h) ==
  /\ h.op = CreateOp
  /\ h.user \in Users
  /\ h.arg \in DOMAIN skills
  /\ skills[h.arg].ownerId = h.user

\* C9: a create request for skill S by the owner of S is answered 400 "Cannot
\* request your own video" at once and inserts no request.
C9_SelfRequestRefused ==
  [][ /\ \A p \in Procs : ~SelfRequest(handler'[p])
      /\ SelfRequest(sent') =>
           /\ sent'.status = 400
           /\ sent'.error = "Cannot request your own video"
           /\ requests' = requests ]_vars

\* the owner was refused while a request for the skill already existed
C9_Witness ==
  /\ SelfRequest(sent)
  /\ sent.status = 400
  /\ \E i \in DOMAIN requests : requests[i].skillId = sent.arg

\* the k-th call of the example scenario has been answered
Played_(k) == scn = k /\ \A p \in Procs : handler[p] = Idle

\* C10: played from the initial state, the example scenario yields: matches
\* with B's skill; a pending request to B; the request accepted and the
\* Permission (A, skill) present; 200 for A's stream; 403 for C's stream.
C10_Scenario ==
  /\ Played_(3) =>
       /\ sent.op = MatchesOp /\ sent.status = 200
       /\ \E i \in DOMAIN sent.body :
            sent.body[i].ownerId = B /\ sent.body[i] = skills[1]
  /\ Played_(4) =>
       /\ sent.op = CreateOp /\ sent.status = 200
       /\ requests = <<[id |-> 1, fromId |-> A, toId |-> B, skillId |-> 1,
                        status |-> "pending"]>>
       /\ sent.body = requests
  /\ Played_(5) =>
       /\ sent.op = AcceptOp /\ sent.status = 200
       /\ Len(requests) = 1 /\ requests[1].status = "accepted"
       /\ sent.body = requests
       /\ PermissionRow(permissions, A, 1)
  /\ Played_(6) => sent.op = StreamOp /\ sent.user = A /\ sent.status = 200
  /\ Played_(7) => sent.op = StreamOp /\ sent.user = C /\ sent.status = 403

\* the whole scenario has been played
C10_Witness == Played_(Len(Scenario))

\* a title in lower case
Lowered(title) == [i \in DOMAIN title |-> ToLower(title[i])]

\* the skills that match for u: not owned by u, and their title contains,
\* letter case aside, the title of a want of u
Matched(u) ==
  {s \in DOMAIN skills :
     /\ skills[s].ownerId # u
     /\ \E w \in DOMAIN wants :
          /\ wants[w].ownerId = u
          /\ ContainsSensitive(Lowered(skills[s].title), Lowered(wants[w].title))}

\* C11: list matches answers user U with exactly the skills that are not owned
\* by U and whose title contains, ignoring letter case, the title of a want of
\* U; each of them once, and nothing when U has no wants.
C11_MatcherResult ==
  (sent.op = MatchesOp /\ sent.status = 200)
  => /\ {sent.body[i].id : i \in DOMAIN sent.body} = Matched(sent.user)
     /\ Len(sent.body) = Cardinality(Matched(sent.user))
     /\ \A i \in DOMAIN sent.body :
          sent.body[i].id \in DOMAIN skills /\ sent.body[i] = skills[sent.body[i].id]
     /\ (\A w \in DOMAIN wants : wants[w].ownerId # sent.user) => sent.body = <<>>

\* U got one skill that two of U's wants match, while U's own skill, whose title
\* matches too, was left out
C11_Witness ==
  /\ sent.op = MatchesOp
  /\ sent.status = 200
  /\ Len(sent.body) = 1
  /\ Cardinality({w \in DOMAIN wants :
                    /\ wants[w].ownerId = sent.user
                    /\ Contains(sent.body[1].title, wants[w].title)}) = 2
  /\ \E s \in DOMAIN skills :
       /\ skills[s].ownerId = sent.user
       /\ \E w \in DOMAIN wants :
            wants[w].ownerId = sent.user /\ Contains(skills[s].title, wants[w].title)

\* the stream response answers a viewer who owns the skill or holds its Permission
Entitled(u, s) == skills[s].ownerId = u \/ PermissionRow(permissions, u, s)

\* C12, as claimed: a stream by an authenticated viewer is answered 404 whenever
\* no skill has the identifier or the skill's media file is not in the store,
\* whoever the viewer is.
C12_StreamNotFound ==
  (/\ sent.op = StreamOp
   /\ sent.user \in Users
   /\ \/ sent.arg \notin DOMAIN skills
      \/ skills[sent.arg].videoPath \notin files)
  => sent.status = 404

\* C12, amended: a stream by an authenticated viewer is answered 404 when no
\* skill has the identifier, and when the viewer is the owner or holds the
\* Permission row and the media file is not in the store; a viewer who is
\* neither is answered 403, whether the file is there or not.
C12_StreamNotFoundEntitled ==
  (sent.op = StreamOp /\ sent.user \in Users)
  => IF sent.arg \notin DOMAIN skills
     THEN sent.status = 404
     ELSE /\ (Entitled(sent.user, sent.arg) /\ skills[sent.arg].videoPath \notin files)
               => sent.status = 404
          /\ ~Entitled(sent.user, sent.arg) => sent.status = 403

\* a viewer who holds the Permission was answered 404 because the file is gone
C12_Witness ==
  /\ sent.op = StreamOp
  /\ sent.status = 404
  /\ sent.error = "File missing"
  /\ sent.arg \in DOMAIN skills
  /\ skills[sent.arg].ownerId # sent.user
  /\ PermissionRow(permissions, sent.user, sent.arg)

\* the title sent with a create skill or create want call
TitleSent(h) == IF h.op = "POST /skills" THEN h.arg.title ELSE h.arg

\* C13: a create skill or create want call with an empty title is answered 400
\* and stores nothing, so every stored Skill and Want has a non-empty title.
C13_TitlesNonEmpty ==
  /\ \A i \in DOMAIN skills : skills[i].title # EmptyTitle
  /\ \A i \in DOMAIN wants : wants[i].title # EmptyTitle
  /\ (/\ sent.op \in {"POST /skills", "POST /wants"}
      /\ sent.user \in Users
      /\ TitleSent(sent) = EmptyTitle) => sent.status = 400

\* the operations behind the auth middleware
AuthOps ==
  {"POST /skills", "POST /wants", "GET /wants/me", MatchesOp, CreateOp,
   "GET /requests", AcceptOp, DeclineOp, "GET /authorized", StreamOp}

\* C14: a call of an operation behind the auth middleware with no token or an
\* invalid one never starts a handler, is answered 401 and leaves skills, wants,
\* requests and permissions as they were; list skills is answered 200 with all
\* the skills, whoever calls.
C14_AuthGate ==
  [][ /\ \A p \in Procs : handler'[p] # Idle => handler'[p].user \in Users
      /\ (sent'.op \in AuthOps /\ sent'.user \notin Users)
           => /\ sent'.status = 401
              /\ sent'.error \in {"Unauthorized", "Invalid token"}
              /\ skills' = skills /\ wants' = wants
              /\ requests' = requests /\ permissions' = permissions
      /\ sent'.op = "GET /skills"
           => /\ sent'.status = 200
              /\ Len(sent'.body) = Len(skills)
              /\ \A i \in DOMAIN skills : sent'.body[Len(skills) + 1 - i] = skills[i]
    ]_vars

\* an accept with an invalid token was refused while the request stayed pending
C14_Witness ==
  /\ sent.op = AcceptOp
  /\ sent.status = 401
  /\ sent.error = "Invalid token"
  /\ Len(requests) = 1
  /\ requests[1].status = "pending"
  /\ permissions = <<>>

\* the call h (a response) is a registration whose fields are all there
FullRegistration(h) ==
  /\ h.op \in RegisterRoutes
  /\ h.arg.name # "" /\ h.arg.email # "" /\ h.arg.password # ""

\* C15: a registration with an email that belongs to a user is answered 409 and
\* creates no user, and no two users share an email.
C15_DuplicateRegistration ==
  /\ [](\A i, j \in DOMAIN users : users[i].email = users[j].email => i = j)
  /\ [][ (/\ FullRegistration(sent')
          /\ \E i \in DOMAIN users : users[i].email = sent'.arg.email)
         => sent'.status = 409 /\ users' = users ]_vars

\* the users of the table tbl registered with this email and this password
RegisteredWith(tbl, email, password) ==
  {i \in DOMAIN tbl : tbl[i].email = email /\ tbl[i].password = Hash(password)}

\* C16: a login with the email and password of a registered user is answered
\* 200 with a token that the auth middleware accepts as that user, and /me with
\* an issued token answers that user's id; a login with an unregistered email
\* or another password is answered 400 and issues no token; nothing but a
\* successful login issues a token.
C16_LoginIdentity ==
  [][ /\ sent'.op = "POST /login"
           => LET who == RegisteredWith(users', sent'.arg.email, sent'.arg.password)
              IN IF who # {}
                 THEN /\ sent'.status = 200
                      /\ Len(sent'.body) = 1
                      /\ auth(sent'.body[1].token).ok
                      /\ who = {auth(sent'.body[1].token).user}
                      /\ sent'.body[1].id \in who
                      /\ issued' = issued \cup {sent'.body[1].token}
                 ELSE /\ sent'.status = 400
                      /\ sent'.body = <<>>
                      /\ issued' = issued
      /\ (sent'.op = "GET /me" /\ sent'.arg \in issued)
           => /\ sent'.status = 200
              /\ sent'.body[1].id = sent'.arg.id
              /\ sent'.body[1].id \in DOMAIN users
              /\ sent'.body[1].email = users[sent'.arg.id].email
      /\ issued' # issued => sent'.op = "POST /login" /\ sent'.status = 200
    ]_vars

\* the second registered user has logged in and /me has answered their id
C16_Witness ==
  /\ sent.op = "GET /me"
  /\ sent.status = 200
  /\ Len(users) = 2
  /\ sent.arg \in issued
  /\ sent.body[1].id = 2

\* the request i is accepted or declined
Resolved(i) == requests[i].status \in {"accepted", "declined"}

\* the call h (a response) is an accept or decline of a resolved request by its target
TargetCallOnResolved(reqs, h) ==
  /\ h.op \in {AcceptOp, DeclineOp}
  /\ h.arg \in DOMAIN reqs
  /\ reqs[h.arg].toId = h.user
  /\ reqs[h.arg].status \in {"accepted", "declined"}

\* C17: an accept or a decline of a request R that is already accepted or
\* declined, by R.toId, is never refused: the accept sets R.status to accepted
\* and ends with 200 and the Permission (R.fromId, R.skillId) present; the
\* decline sets R.status to declined and ends with 200.
C17_ReTransition ==
  [][ /\ TargetCallOnResolved(requests, sent') => sent'.status = 200
      /\ \A p \in Procs :
           /\ (At(p, AcceptOp, "update") /\ Resolved(handler[p].arg)
                  /\ handler'[p] # handler[p])
                => /\ handler'[p].pc = "upsert"
                   /\ requests'[handler[p].arg].status = "accepted"
           /\ (At(p, AcceptOp, "upsert") /\ handler'[p] # handler[p])
                => /\ sent'.status = 200
                   /\ sent'.body[1].status = "accepted"
                   /\ PermissionRow(permissions', requests[handler[p].arg].fromId,
                                    requests[handler[p].arg].skillId)
           /\ (At(p, DeclineOp, "update") /\ Resolved(handler[p].arg)
                  /\ handler'[p] # handler[p])
                => /\ sent'.status = 200
                   /\ sent'.body[1].status = "declined"
                   /\ requests'[handler[p].arg].status = "declined"
    ]_vars

\* an accept has set the status of a request that had been accepted before
\* (its Permission is there already) and is about to run its upsert
C17_Witness ==
  \E p \in Procs :
    /\ At(p, AcceptOp, "upsert")
    /\ handler[p].arg \in everAccepted
    /\ PermissionRow(permissions, handler[p].r[1].fromId, handler[p].r[1].skillId)

\* C18: an accept and a decline of the same request R by its target, their
\* steps interleaved in any order: each status update writes its own status
\* whatever the status was, and nothing else changes a status, so the last
\* update applied decides; both calls end with 200; and once no accept of R is
\* between its update and its upsert, the Permission (R.fromId, R.skillId) is
\* there whichever status R has.
C18_ConcurrentResolve ==
  /\ [][ /\ \A p \in Procs :
             /\ (At(p, AcceptOp, "update") /\ handler'[p] # handler[p])
                  => requests'[handler[p].arg].status = "accepted"
             /\ (At(p, DeclineOp, "update") /\ handler'[p] # handler[p])
                  => /\ requests'[handler[p].arg].status = "declined"
                     /\ sent'.status = 200
             /\ (At(p, AcceptOp, "upsert") /\ handler'[p] # handler[p])
                  => /\ sent'.status = 200
                     /\ PermissionRow(permissions', requests[handler[p].arg].fromId,
                                      requests[handler[p].arg].skillId)
         /\ \A i \in DOMAIN requests :
              requests'[i].status # requests[i].status
                => \E p \in Procs : /\ handler[p].pc = "update"
                                    /\ handler[p].arg = i
                                    /\ handler'[p] # handler[p]
       ]_vars
  /\ [](\A i \in everAccepted :
          (\A p \in Procs : ~(At(p, AcceptOp, "upsert") /\ handler[p].arg = i))
            => PermissionRow(permissions, requests[i].fromId, requests[i].skillId))

\* the accept has just ended with 200 after the decline, begun meanwhile, had
\* written its status: R is declined and the Permission is there
C18_Witness ==
  /\ sent.op = AcceptOp
  /\ sent.status = 200
  /\ \A p \in Procs : handler[p] = Idle
  /\ requests[sent.arg].status = "declined"
  /\ PermissionRow(permissions, requests[sent.arg].fromId, requests[sent.arg].skillId)

\* C19: every request refers to an existing skill, is addressed to its owner
\* and comes from someone else; a create request for an identifier that no
\* skill has is answered 404 and inserts nothing; a Permission row appears only
\* at the upsert of an accept called by the owner of its skill, and never for
\* that owner.
C19_WellFormed ==
  /\ [](\A i \in DOMAIN requests :
          /\ requests[i].skillId \in DOMAIN skills
          /\ requests[i].toId = skills[requests[i].skillId].ownerId
          /\ requests[i].fromId # requests[i].toId)
  /\ [](\A i \in DOMAIN permissions :
          /\ permissions[i].videoId \in DOMAIN skills
          /\ permissions[i].userId # skills[permissions[i].videoId].ownerId)
  /\ [][ /\ (sent'.op = CreateOp /\ sent'.user \in Users /\ sent'.arg \notin DOMAIN skills)
               => /\ sent'.status = 404
                  /\ sent'.error = "Video not found"
                  /\ requests' = requests
         /\ \A p \in Procs : handler'[p].op = CreateOp => handler'[p].arg \in DOMAIN skills
         /\ permissions' # permissions
               => /\ Len(permissions') = Len(permissions) + 1
                  /\ SubSeq(permissions', 1, Len(permissions)) = permissions
                  /\ \E p \in Procs :
                       /\ At(p, AcceptOp, "upsert")
                       /\ handler'[p] = Idle
                       /\ handler[p].user = skills[Last(permissions').videoId].ownerId
       ]_vars

\* with a request accepted and its Permission there, a create request for an
\* identifier that no skill has was answered 404
C19_Witness ==
  /\ sent.op = CreateOp
  /\ sent.status = 404
  /\ sent.user \in Users
  /\ Len(requests) = 1
  /\ Len(permissions) = 1

\* C20: list authorized answers user U with exactly the skills S that have a
\* Permission row (U, S), each once; and whenever a stream of S by U is
\* answered 403, S is not among the skills that list authorized returns to U.
C20_AuthorizedAgrees ==
  /\ []((sent.op = "GET /authorized" /\ sent.status = 200)
         => LET permitted == {s \in DOMAIN skills :
                               PermissionRow(permissions, sent.user, s)}
            IN /\ {sent.body[i].id : i \in DOMAIN sent.body} = permitted
               /\ Len(sent.body) = Cardinality(permitted)
               /\ \A i \in DOMAIN sent.body : sent.body[i] = skills[sent.body[i].id])
  /\ [][ (sent'.op = StreamOp /\ sent'.status = 403)
           => \A i \in DOMAIN AuthorizedVideos(sent'.user) :
                AuthorizedVideos(sent'.user)[i].id # sent'.arg ]_vars

\* list authorized has returned a skill to a user whose request was accepted
C20_Witness ==
  /\ sent.op = "GET /authorized"
  /\ sent.status = 200
  /\ Len(sent.body) = 1
  /\ sent.body[1].ownerId # sent.user
====
